---- MODULE Spec2Model ----
(***************************************************************************)
(* Model of money.py, the household-budget dashboard script.               *)
(*                                                                         *)
(* One run of the script is the sequence load_data -> month filter and     *)
(* summary metrics -> category reconciliation (summary) -> monthly trend   *)
(* (monthly_summary) -> detail table (display_logs).  The script is rerun  *)
(* from the top on every user interaction; load_data is memoised by        *)
(* st.cache_data(ttl=30).                                                  *)
(*                                                                         *)
(* Amounts are fixed-point numbers with Scale units per currency unit, so  *)
(* that 0.5 is the integer 5.  Text cells are sequences of characters; the *)
(* yen sign is the character "Yen".  A missing cell (NaN) of the category  *)
(* column is the value NaN.                                                *)
(***************************************************************************)
EXTENDS Integers, Sequences, FiniteSets

VARIABLES
    remote_up,        \* whether the spreadsheet export endpoint answers
    remote_logs,      \* raw transaction sheet as served by the endpoint
    remote_budget,    \* raw budget sheet as served by the endpoint
    now,              \* wall clock, seconds
    cache,            \* the st.cache_data entry of load_data
    fetches,          \* number of network fetches performed so far
    last_fetch,       \* time and tables of the last fetch that load_data returned
    pc,               \* position of the current run of the script
    df_logs,          \* normalised transaction table of the current run
    df_budget,        \* normalised budget table of the current run
    selected_month,   \* value of the sidebar selectbox
    metrics,          \* total_income, total_spent, total_budget, balance, spent_pct
    summary,          \* category table (with label and bar colour)
    monthly_summary,  \* trend pivot table
    display_logs,     \* detail table
    rendered          \* dashboard elements produced by the current run

vars == <<remote_up, remote_logs, remote_budget, now, cache, fetches, last_fetch,
          pc, df_logs, df_budget, selected_month, metrics, summary,
          monthly_summary, display_logs, rendered>>

----------------------------------------------------------------------------
(* Bounds of the model *)

MaxLogRows == 2
MaxBudgetRows == 2
MaxTime == 33
MaxFetches == 3

(* Program constants *)

TTL == 30
Scale == 10

----------------------------------------------------------------------------
(* Values *)

NaN == "NaN"
Income == "Income"
Expense == "Expense"
NoMonth == <<0, 0>>

Date(y, m, d) == [y |-> y, m |-> m, d |-> d]
BadDate == Date(0, 0, 0)

Digits == <<"0", "1", "2", "3", "4", "5", "6", "7", "8", "9">>

IsDigit(c) == \E i \in 1..10 : Digits[i] = c

DigitVal(c) == (CHOOSE i \in 1..10 : Digits[i] = c) - 1

(* lexicographic order of the category strings, as pandas sorts group keys *)
ItemOrder == <<"Food", "Rent", "Salary">>

(* raw amount cells *)
Cell300 == <<"3", "0", "0">>
CellYen1000 == <<"Yen", "1", ",", "0", "0", "0">>
CellYenMinus500 == <<"Yen", "-", "5", "0", "0">>
CellHalf == <<"0", ".", "5">>
CellNA == <<"N", "/", "A">>

RawLog(d, i, c, f) == [date |-> d, item |-> i, cell |-> c, flow |-> f]
RawBudget(d, i, c) == [date |-> d, item |-> i, cell |-> c]

LogRowChoices ==
    { RawLog(Date(2024, 1, 5), "Food", Cell300, Expense),
      RawLog(Date(2024, 1, 20), "Rent", CellNA, Expense),
      RawLog(Date(2024, 1, 20), "Food", CellHalf, Expense),
      RawLog(Date(2024, 1, 5), NaN, CellYen1000, Expense),
      RawLog(Date(2024, 2, 10), "Food", CellYenMinus500, Expense),
      RawLog(Date(2024, 2, 10), "Salary", CellYen1000, Income),
      RawLog(BadDate, "Food", Cell300, Expense) }

BudgetRowChoices ==
    { RawBudget(Date(2024, 1, 1), "Food", Cell300),
      RawBudget(Date(2024, 1, 1), "Rent", CellYen1000),
      RawBudget(Date(2024, 1, 1), "Rent", Cell300),
      RawBudget(Date(2024, 1, 1), NaN, CellYenMinus500) }

SeqsUpTo(S, n) == UNION { [1..k -> S] : k \in 0..n }

----------------------------------------------------------------------------
(* load_data: normalisation of the amount column (line 25) *)

(* a pattern that lacks the comma *)
StripYenOnly(cell) == SelectSeq(cell, LAMBDA c : c # "Yen")

(* .replace(r'[¥,]', '', regex=True): delete every yen sign and comma *)
StripCurrency(cell) == SelectSeq(cell, LAMBDA c : c \notin {"Yen", ","})

HasSign(s) == Len(s) > 0 /\ s[1] \in {"-", "+"}

Unsigned(s) == IF HasSign(s) THEN Tail(s) ELSE s

DotCount(s) == Cardinality({ i \in DOMAIN s : s[i] = "." })

DotPos(s) == IF DotCount(s) = 0 THEN Len(s) + 1 ELSE CHOOSE i \in DOMAIN s : s[i] = "."

(* what pd.to_numeric accepts of a text over digits, sign, point and other
   characters: [sign] digits [. digits] with at least one digit *)
IsNumericText(s) ==
    LET u == Unsigned(s)
    IN  /\ DotCount(u) <= 1
        /\ \A i \in DOMAIN u : u[i] = "." \/ IsDigit(u[i])
        /\ \E i \in DOMAIN u : IsDigit(u[i])

RECURSIVE DigitsValue(_)
DigitsValue(s) ==
    IF s = <<>> THEN 0
    ELSE 10 * DigitsValue(SubSeq(s, 1, Len(s) - 1)) + DigitVal(s[Len(s)])

(* value of a numeric text in units of 1/Scale; the fraction is kept to the
   one digit the unit resolves *)
NumericValue(s) ==
    LET u == Unsigned(s)
        p == DotPos(u)
        whole == DigitsValue(SubSeq(u, 1, p - 1))
        frac == IF p + 1 <= Len(u) THEN DigitVal(u[p + 1]) ELSE 0
        mag == whole * Scale + frac
    IN  IF HasSign(s) /\ s[1] = "-" THEN 0 - mag ELSE mag

(* a pattern that also deletes the minus sign *)
to_numeric_unsigned(cell) ==
    LET s == SelectSeq(cell, LAMBDA c : c \notin {"Yen", ",", "-"})
    IN  IF IsNumericText(s) THEN NumericValue(s) ELSE 0

(* pd.to_numeric(..., errors='coerce').fillna(0) of one cell *)
to_numeric(cell) ==
    LET s == StripCurrency(cell)
    IN  IF IsNumericText(s) THEN NumericValue(s) ELSE 0

(* errors='coerce' on the date column: nothing raises *)
DateParsesCoerce(d) == TRUE

(* pd.to_datetime of one date cell raises on a text that is no date *)
DateParses(d) == d.m \in 1..12 /\ d.d \in 1..31

(* .dt.strftime('%Y-%m') *)
YearMonth(d) == <<d.y, d.m>>

NormLog(r) ==
    [date |-> r.date, ym |-> YearMonth(r.date), item |-> r.item,
     amount |-> to_numeric(r.cell), flow |-> r.flow]

NormBudget(r) ==
    [ym |-> YearMonth(r.date), item |-> r.item, amount |-> to_numeric(r.cell)]

NormalizeLogs(raw) == [i \in DOMAIN raw |-> NormLog(raw[i])]

NormalizeBudget(raw) == [i \in DOMAIN raw |-> NormBudget(raw[i])]

DatesParse(raw) == \A i \in DOMAIN raw : DateParses(raw[i].date)

----------------------------------------------------------------------------
(* Tables *)

RECURSIVE SumAmount(_)
SumAmount(rows) ==
    IF rows = <<>> THEN 0 ELSE rows[1].amount + SumAmount(Tail(rows))

YmLess(a, b) == a[1] < b[1] \/ (a[1] = b[1] /\ a[2] < b[2])

DateLess(a, b) ==
    \/ a.y < b.y
    \/ a.y = b.y /\ a.m < b.m
    \/ a.y = b.y /\ a.m = b.m /\ a.d < b.d

(* the year-months of S, most recent first *)
RECURSIVE MonthsDescending(_)
MonthsDescending(S) ==
    IF S = {} THEN <<>>
    ELSE LET m == CHOOSE x \in S : \A y \in S \ {x} : YmLess(y, x)
         IN  <<m>> \o MonthsDescending(S \ {m})

(* the year-months of S, oldest first (the sorted index of a groupby) *)
RECURSIVE MonthsAscending(_)
MonthsAscending(S) ==
    IF S = {} THEN <<>>
    ELSE LET m == CHOOSE x \in S : \A y \in S \ {x} : YmLess(x, y)
         IN  <<m>> \o MonthsAscending(S \ {m})

(* line 31: sorted(df_logs['年月'].unique(), reverse=True) *)
available_months(logs) == MonthsDescending({ logs[i].ym : i \in DOMAIN logs })

(* lines 34-35: boolean-mask row filter on the year-month column *)
MonthFilter(rows, month) == SelectSeq(rows, LAMBDA r : r.ym = month)

FlowFilter(rows, flow) == SelectSeq(rows, LAMBDA r : r.flow = flow)

(* a guard that lets a negative total budget through *)
spent_pct_nonzero(spent, budget) ==
    IF budget # 0 THEN (spent * 1000) \div budget ELSE 0

(* lines 37-45 *)
spent_pct(spent, budget) == IF budget > 0 THEN (spent * 1000) \div budget ELSE 0

Metrics(month_logs, month_budget) ==
    LET income == SumAmount(FlowFilter(month_logs, Income))
        spent == SumAmount(FlowFilter(month_logs, Expense))
        budget == SumAmount(month_budget)
    IN  [total_income |-> income, total_spent |-> spent, total_budget |-> budget,
         balance |-> budget - spent, spent_pct |-> spent_pct(spent, budget)]

NoMetrics ==
    [total_income |-> 0, total_spent |-> 0, total_budget |-> 0,
     balance |-> 0, spent_pct |-> 0]

----------------------------------------------------------------------------
(* Category reconciliation (lines 60-73, 81) *)

Abs(x) == IF x < 0 THEN 0 - x ELSE x

(* int(x) of a number: truncation toward zero, in whole currency units *)
Trunc(x) == IF x >= 0 THEN x \div Scale ELSE 0 - ((0 - x) \div Scale)

(* group keys of groupby('項目'): rows whose key is missing are dropped *)
ItemKeys(rows) == { rows[i].item : i \in DOMAIN rows } \ {NaN}

(* groupby('項目')['金額'].sum().reset_index(): one row per key, keys sorted *)
GroupSum(rows) ==
    LET keys == SelectSeq(ItemOrder, LAMBDA k : k \in ItemKeys(rows))
    IN  [i \in DOMAIN keys |->
            [item |-> keys[i],
             amount |-> SumAmount(SelectSeq(rows, LAMBDA r : r.item = keys[i]))]]

(* the amount of key k in a grouped table, 0 (fillna) where k is absent *)
AmountOf(grouped, k) ==
    IF \E i \in DOMAIN grouped : grouped[i].item = k
    THEN grouped[CHOOSE i \in DOMAIN grouped : grouped[i].item = k].amount
    ELSE 0

(* an inner join: only the keys of both sides *)
MergeInner(left, right) ==
    LET both == { left[i].item : i \in DOMAIN left }
                    \cap { right[i].item : i \in DOMAIN right }
        keys == SelectSeq(ItemOrder, LAMBDA k : k \in both)
    IN  [i \in DOMAIN keys |->
            [item |-> keys[i],
             budget |-> AmountOf(left, keys[i]),
             actual |-> AmountOf(right, keys[i])]]

(* pd.merge(left, right, on='項目', how='outer', ...).fillna(0): the union of
   the keys, sorted, with 0 for the side a key is absent from *)
MergeOuter(left, right) ==
    LET union == { left[i].item : i \in DOMAIN left }
                    \cup { right[i].item : i \in DOMAIN right }
        keys == SelectSeq(ItemOrder, LAMBDA k : k \in union)
    IN  [i \in DOMAIN keys |->
            [item |-> keys[i],
             budget |-> AmountOf(left, keys[i]),
             actual |-> AmountOf(right, keys[i])]]

(* line 66 *)
WithDifference(rows) ==
    [i \in DOMAIN rows |->
        [item |-> rows[i].item, budget |-> rows[i].budget,
         actual |-> rows[i].actual, diff |-> rows[i].budget - rows[i].actual]]

RECURSIVE InsertByDifference(_, _)
InsertByDifference(s, x) ==
    IF s = <<>> THEN <<x>>
    ELSE IF x.diff < s[1].diff THEN <<x>> \o s
    ELSE <<s[1]>> \o InsertByDifference(Tail(s), x)

(* line 67: sort_values('差額', ascending=True); rows of equal difference keep
   their order, as the sort of a short column does *)
RECURSIVE SortByDifference(_)
SortByDifference(s) ==
    IF s = <<>> THEN <<>>
    ELSE InsertByDifference(SortByDifference(SubSeq(s, 1, Len(s) - 1)), s[Len(s)])

(* groupby(..., sort=False): keys in order of first appearance *)
RECURSIVE KeysInOrder(_)
KeysInOrder(rows) ==
    IF rows = <<>> THEN <<>>
    ELSE LET rest == KeysInOrder(SubSeq(rows, 1, Len(rows) - 1))
             k == rows[Len(rows)].item
         IN  IF k = NaN \/ (\E i \in DOMAIN rest : rest[i] = k)
             THEN rest ELSE Append(rest, k)

GroupSumInOrder(rows) ==
    LET keys == KeysInOrder(rows)
    IN  [i \in DOMAIN keys |->
            [item |-> keys[i],
             amount |-> SumAmount(SelectSeq(rows, LAMBDA r : r.item = keys[i]))]]

(* merge(..., sort=False): the keys of the left side, then the other keys of
   the right side, both in their order *)
MergeOuterInOrder(left, right) ==
    LET rightOnly == SelectSeq(right,
                        LAMBDA r : ~(\E i \in DOMAIN left : left[i].item = r.item))
        keys == [i \in DOMAIN left |-> left[i].item]
                    \o [i \in DOMAIN rightOnly |-> rightOnly[i].item]
    IN  [i \in DOMAIN keys |->
            [item |-> keys[i],
             budget |-> AmountOf(left, keys[i]),
             actual |-> AmountOf(right, keys[i])]]

(* grouping and joining that keep the order of the input rows *)
summary_table_in_order(month_budget, month_logs) ==
    SortByDifference(WithDifference(
        MergeOuterInOrder(GroupSumInOrder(month_budget),
                          GroupSumInOrder(FlowFilter(month_logs, Expense)))))

(* lines 60-67 *)
summary_table(month_budget, month_logs) ==
    SortByDifference(WithDifference(
        MergeOuter(GroupSum(month_budget), GroupSum(FlowFilter(month_logs, Expense)))))

(* lines 69-71: the text is the form and the two numbers it prints *)
make_label(row) ==
    LET spent == Trunc(row.actual)
        diff == Trunc(row.diff)
    IN  IF diff < 0
        THEN [form |-> "over", spent |-> spent, amount |-> Abs(diff)]
        ELSE [form |-> "remaining", spent |-> spent, amount |-> diff]

(* line 81 *)
bar_color(row) == IF row.diff < 0 THEN "#EF553B" ELSE "#636EFA"

(* lines 73-86: the rows as charted *)
Charted(rows) ==
    [i \in DOMAIN rows |->
        [item |-> rows[i].item, budget |-> rows[i].budget,
         actual |-> rows[i].actual, diff |-> rows[i].diff,
         label |-> make_label(rows[i]), color |-> bar_color(rows[i])]]

----------------------------------------------------------------------------
(* Monthly trend (line 95) and detail table (lines 109-113) *)

FlowsOf(logs) == { logs[i].flow : i \in DOMAIN logs }

MonthsOf(logs) == { logs[i].ym : i \in DOMAIN logs }

(* a sum that forgets the month *)
TrendCellAllMonths(logs, ym, flow) ==
    SumAmount(SelectSeq(logs, LAMBDA r : r.flow = flow))

TrendCell(logs, ym, flow) ==
    SumAmount(SelectSeq(logs, LAMBDA r : r.ym = ym /\ r.flow = flow))

(* groupby(['年月', '収支'])['金額'].sum().unstack().fillna(0): one row per
   year-month, one column per flow direction that occurs in the table *)
trend_table(logs) ==
    LET index == MonthsAscending(MonthsOf(logs))
    IN  [columns |-> FlowsOf(logs),
         rows |-> [i \in DOMAIN index |->
                     [ym |-> index[i],
                      totals |-> [f \in FlowsOf(logs) |-> TrendCell(logs, index[i], f)]]]]

NoTrend == [columns |-> {}, rows |-> <<>>]

(* lines 98-101: the traces added to the trend chart *)
TrendTraces(table) == { f \in {Income, Expense} : f \in table.columns }

RECURSIVE InsertByDate(_, _)
InsertByDate(s, x) ==
    IF s = <<>> THEN <<x>>
    ELSE IF DateLess(x.date, s[1].date) THEN <<x>> \o s
    ELSE <<s[1]>> \o InsertByDate(Tail(s), x)

RECURSIVE SortByDate(_)
SortByDate(s) ==
    IF s = <<>> THEN <<>>
    ELSE InsertByDate(SortByDate(SubSeq(s, 1, Len(s) - 1)), s[Len(s)])

(* lines 109-112 *)
detail_table(month_logs) ==
    LET sorted == SortByDate(month_logs)
    IN  [i \in DOMAIN sorted |->
            [date |-> <<sorted[i].date.y, sorted[i].date.m, sorted[i].date.d>>,
             item |-> sorted[i].item, amount |-> sorted[i].amount,
             flow |-> sorted[i].flow]]

----------------------------------------------------------------------------
(* The run of the script *)

NoEntry == [valid |-> FALSE, logs |-> <<>>, budget |-> <<>>, stored |-> 0]

NoFetch == [done |-> FALSE, logs |-> <<>>, budget |-> <<>>, time |-> 0]

(* the sheets the endpoint serves over a sequence of reruns *)
RerunLogTables ==
    { <<RawLog(Date(2024, 1, 5), "Food", Cell300, Expense)>>,
      <<RawLog(Date(2024, 1, 20), "Rent", CellNA, Expense)>>,
      <<RawLog(BadDate, "Food", Cell300, Expense)>> }

RerunBudgetTable == <<RawBudget(Date(2024, 1, 1), "Food", Cell300)>>

RunStart ==
    /\ pc = "start"
    /\ df_logs = <<>>
    /\ df_budget = <<>>
    /\ selected_month = NoMonth
    /\ metrics = NoMetrics
    /\ summary = <<>>
    /\ monthly_summary = NoTrend
    /\ display_logs = <<>>
    /\ rendered = {}

Init ==
    /\ remote_up \in BOOLEAN
    /\ remote_logs \in SeqsUpTo(LogRowChoices, MaxLogRows)
    /\ remote_budget \in SeqsUpTo(BudgetRowChoices, MaxBudgetRows)
    /\ now = 0
    /\ cache = NoEntry
    /\ fetches = 0
    /\ last_fetch = NoFetch
    /\ RunStart

InitReruns ==
    /\ remote_up = TRUE
    /\ remote_logs \in RerunLogTables
    /\ remote_budget = RerunBudgetTable
    /\ now = 0
    /\ cache = NoEntry
    /\ fetches = 0
    /\ last_fetch = NoFetch
    /\ RunStart

(* an entry still served at the age of the time to live *)
CacheFreshInclusive(entry, t) == entry.valid /\ t <= entry.stored + TTL

(* the cache entry is served while its age is below the time to live *)
CacheFresh(entry, t) == entry.valid /\ t < entry.stored + TTL

(* lines 10-28: the memoised load_data().  A call served from the cache
   fetches nothing.  Otherwise both sheets are fetched (lines 13-14); a
   failed fetch or an unparseable date (lines 19, 21) raises, which ends
   the run and stores nothing; else the normalised tables are stored. *)
LoadData ==
    /\ pc = "start"
    /\ IF CacheFresh(cache, now)
       THEN /\ df_logs' = cache.logs
            /\ df_budget' = cache.budget
            /\ pc' = "loaded"
            /\ UNCHANGED <<cache, fetches, last_fetch>>
       ELSE /\ fetches < MaxFetches
            /\ fetches' = fetches + 1
            /\ IF remote_up /\ DatesParse(remote_logs) /\ DatesParse(remote_budget)
               THEN /\ df_logs' = NormalizeLogs(remote_logs)
                    /\ df_budget' = NormalizeBudget(remote_budget)
                    /\ cache' = [valid |-> TRUE, logs |-> df_logs',
                                 budget |-> df_budget', stored |-> now]
                    /\ last_fetch' = [done |-> TRUE, logs |-> df_logs',
                                      budget |-> df_budget', time |-> now]
                    /\ pc' = "loaded"
               ELSE /\ pc' = "aborted"
                    /\ UNCHANGED <<df_logs, df_budget, cache, last_fetch>>
    /\ UNCHANGED <<remote_up, remote_logs, remote_budget, now, selected_month,
                   metrics, summary, monthly_summary, display_logs, rendered>>

(* line 32: the selectbox offers the months of the transaction table and
   yields None when there is none *)
MonthChoices(logs) ==
    IF logs = <<>> THEN {NoMonth}
    ELSE { available_months(logs)[i] : i \in DOMAIN available_months(logs) }

month_logs == MonthFilter(df_logs, selected_month)

month_budget == MonthFilter(df_budget, selected_month)

(* lines 31-54: month selection, month filter, summary metrics *)
Summarise ==
    /\ pc = "loaded"
    /\ \E m \in MonthChoices(df_logs) :
          /\ selected_month' = m
          /\ metrics' = Metrics(MonthFilter(df_logs, m), MonthFilter(df_budget, m))
    /\ rendered' = rendered \cup {"metrics"}
    /\ pc' = "summarised"
    /\ UNCHANGED <<remote_up, remote_logs, remote_budget, now, cache, fetches,
                   last_fetch, df_logs, df_budget, summary, monthly_summary,
                   display_logs>>

(* lines 59-90: category table and progress chart *)
Reconcile ==
    /\ pc = "summarised"
    /\ summary' = Charted(summary_table(month_budget, month_logs))
    /\ rendered' = rendered \cup {"category_chart"}
    /\ pc' = "reconciled"
    /\ UNCHANGED <<remote_up, remote_logs, remote_budget, now, cache, fetches,
                   last_fetch, df_logs, df_budget, selected_month, metrics,
                   monthly_summary, display_logs>>

(* lines 93-104: monthly trend chart *)
Trend ==
    /\ pc = "reconciled"
    /\ monthly_summary' = trend_table(df_logs)
    /\ rendered' = rendered \cup {"trend_chart"}
    /\ pc' = "trended"
    /\ UNCHANGED <<remote_up, remote_logs, remote_budget, now, cache, fetches,
                   last_fetch, df_logs, df_budget, selected_month, metrics,
                   summary, display_logs>>

(* lines 107-113: detail table *)
Detail ==
    /\ pc = "trended"
    /\ display_logs' = detail_table(month_logs)
    /\ rendered' = rendered \cup {"detail_table"}
    /\ pc' = "done"
    /\ UNCHANGED <<remote_up, remote_logs, remote_budget, now, cache, fetches,
                   last_fetch, df_logs, df_budget, selected_month, metrics,
                   summary, monthly_summary>>

(* a user interaction reruns the script from the top; the cache outlives
   the run, the run's own values do not *)
Rerun ==
    /\ pc \in {"done", "aborted"}
    /\ pc' = "start"
    /\ df_logs' = <<>>
    /\ df_budget' = <<>>
    /\ selected_month' = NoMonth
    /\ metrics' = NoMetrics
    /\ summary' = <<>>
    /\ monthly_summary' = NoTrend
    /\ display_logs' = <<>>
    /\ rendered' = {}
    /\ UNCHANGED <<remote_up, remote_logs, remote_budget, now, cache, fetches,
                   last_fetch>>

(* time passes between runs *)
Tick ==
    /\ pc = "start"
    /\ now < MaxTime
    /\ now' = now + 1
    /\ UNCHANGED <<remote_up, remote_logs, remote_budget, cache, fetches,
                   last_fetch, pc, df_logs, df_budget, selected_month, metrics,
                   summary, monthly_summary, display_logs, rendered>>

(* the owner of the spreadsheet edits the transaction sheet *)
RemoteEdit ==
    /\ pc = "start"
    /\ remote_logs' \in RerunLogTables \ {remote_logs}
    /\ UNCHANGED <<remote_up, remote_budget, now, cache, fetches, last_fetch, pc,
                   df_logs, df_budget, selected_month, metrics, summary,
                   monthly_summary, display_logs, rendered>>

(* the endpoint becomes unreachable, or reachable again *)
RemoteOutage ==
    /\ pc = "start"
    /\ remote_up' = ~remote_up
    /\ UNCHANGED <<remote_logs, remote_budget, now, cache, fetches, last_fetch, pc,
                   df_logs, df_budget, selected_month, metrics, summary,
                   monthly_summary, display_logs, rendered>>

Next == LoadData \/ Summarise \/ Reconcile \/ Trend \/ Detail

Spec == Init /\ [][Next]_vars

NextReruns ==
    \/ LoadData
    \/ Summarise
    \/ Reconcile
    \/ Trend
    \/ Detail
    \/ Rerun
    \/ Tick
    \/ RemoteEdit
    \/ RemoteOutage

SpecReruns == InitReruns /\ [][NextReruns]_vars

----------------------------------------------------------------------------
(* Properties *)

Loaded == pc \in {"loaded", "summarised", "reconciled", "trended", "done"}

Summarised == pc \in {"summarised", "reconciled", "trended", "done"}

Reconciled == pc \in {"reconciled", "trended", "done"}

Trended == pc \in {"trended", "done"}

RECURSIVE SumActual(_)
SumActual(rows) == IF rows = <<>> THEN 0 ELSE rows[1].actual + SumActual(Tail(rows))

(* C1: total_spent of the summary metrics equals the sum of the actual amounts
   of the rows of the category table of the same month, also when an expense
   row has no category. *)
C1_TotalSpentIsSumOfActuals ==
    Reconciled => metrics.total_spent = SumActual(summary)

(* C2: after load_data every transaction row and every budget row has a
   non-negative amount, whatever the raw cell. *)
C2_AmountsNonNegative ==
    Loaded => /\ \A i \in DOMAIN df_logs : df_logs[i].amount >= 0
              /\ \A i \in DOMAIN df_budget : df_budget[i].amount >= 0

MinusSigned(cell) ==
    \E i \in DOMAIN cell :
        cell[i] = "-" /\ \A j \in 1..(i - 1) : cell[j] \in {"Yen", ","}

(* C2 as amended: after load_data the amount of a row is non-negative unless
   the raw cell, once the currency symbol and separators are removed, starts
   with a minus sign; such a cell is normalised to a value that is not
   positive (the sign stays in the amount). *)
C2_AmountSignFollowsCell ==
    Loaded =>
        /\ Len(df_logs) = Len(remote_logs)
        /\ Len(df_budget) = Len(remote_budget)
        /\ \A i \in DOMAIN df_logs :
              IF MinusSigned(remote_logs[i].cell)
              THEN df_logs[i].amount <= 0
              ELSE df_logs[i].amount >= 0
        /\ \A i \in DOMAIN df_budget :
              IF MinusSigned(remote_budget[i].cell)
              THEN df_budget[i].amount <= 0
              ELSE df_budget[i].amount >= 0

C2_Witness ==
    /\ Loaded
    /\ \E i \in DOMAIN df_logs :
          remote_logs[i].cell = CellYenMinus500 /\ df_logs[i].amount = 0 - 500 * Scale
    /\ \E i \in DOMAIN df_budget :
          remote_budget[i].cell = CellYenMinus500 /\ df_budget[i].amount < 0

(* C3: the label of a category row has the over-budget form exactly when the
   row's difference (budget minus actual) is below 0, for every difference,
   fractions between -1 and 0 included. *)
C3_LabelFormFollowsDifference ==
    Reconciled =>
        \A i \in DOMAIN summary :
            (summary[i].label.form = "over") <=> (summary[i].diff < 0)

(* C4: the category table has exactly one row for each category of the
   month's budget rows or of the month's expense rows; a side that lacks the
   category counts 0, the budget rows of one category are summed, and the
   difference is budget minus actual. *)
C4_FullOuterJoin ==
    Reconciled =>
        LET expenses == FlowFilter(month_logs, Expense)
            cats == ({ month_budget[i].item : i \in DOMAIN month_budget }
                        \cup { expenses[i].item : i \in DOMAIN expenses }) \ {NaN}
        IN  /\ { summary[i].item : i \in DOMAIN summary } = cats
            /\ Len(summary) = Cardinality(cats)
            /\ \A i \in DOMAIN summary :
                  /\ summary[i].budget =
                        SumAmount(SelectSeq(month_budget,
                                            LAMBDA r : r.item = summary[i].item))
                  /\ summary[i].actual =
                        SumAmount(SelectSeq(expenses,
                                            LAMBDA r : r.item = summary[i].item))
                  /\ summary[i].diff = summary[i].budget - summary[i].actual

C4_Witness ==
    /\ Reconciled
    /\ Len(month_budget) = 2
    /\ \E i \in DOMAIN summary :
          /\ summary[i].item = "Rent"
          /\ summary[i].budget = 1300 * Scale
    /\ \E i \in DOMAIN summary :
          /\ summary[i].item = "Food"
          /\ summary[i].budget = 0
          /\ summary[i].actual = 300 * Scale
          /\ summary[i].diff = 0 - 300 * Scale

(* C5: when no row of a table is of the selected month the month filter gives
   no row of it; totals over no rows are 0, so with both filtered tables
   empty every metric is 0; the percentage is 0 whenever the total budget is
   not above 0 and is computed without a division by zero. *)
C5_EmptyMonthAndPercentage ==
    Summarised =>
        /\ (\A i \in DOMAIN df_logs : df_logs[i].ym # selected_month)
              => /\ month_logs = <<>>
                 /\ metrics.total_income = 0
                 /\ metrics.total_spent = 0
        /\ (\A i \in DOMAIN df_budget : df_budget[i].ym # selected_month)
              => /\ month_budget = <<>>
                 /\ metrics.total_budget = 0
                 /\ metrics.balance = 0 - metrics.total_spent
        /\ ( /\ \A i \in DOMAIN df_logs : df_logs[i].ym # selected_month
             /\ \A i \in DOMAIN df_budget : df_budget[i].ym # selected_month )
              => metrics = NoMetrics
        /\ metrics.total_budget <= 0 => metrics.spent_pct = 0
        /\ metrics.total_budget > 0 =>
              /\ metrics.spent_pct * metrics.total_budget <= metrics.total_spent * 1000
              /\ metrics.total_spent * 1000 <
                    (metrics.spent_pct + 1) * metrics.total_budget

C5_Witness ==
    /\ Summarised
    /\ df_budget # <<>>
    /\ df_logs = <<>>
    /\ month_budget = <<>>
    /\ metrics = NoMetrics

LoadDataStep == pc = "start" /\ pc' # "start"

(* C6: over any sequence of reruns, a call of load_data made less than 30
   seconds after the last fetch that returned tables fetches nothing and
   returns the tables of that fetch; a call made once 30 seconds have passed
   fetches anew; and the number of fetches changes in no step other than a
   call of load_data. *)
C6_CacheWindow ==
    [][ /\ (LoadDataStep /\ last_fetch.done /\ now - last_fetch.time < TTL)
            => /\ fetches' = fetches
               /\ pc' = "loaded"
               /\ df_logs' = last_fetch.logs
               /\ df_budget' = last_fetch.budget
        /\ (LoadDataStep /\ last_fetch.done /\ now - last_fetch.time >= TTL)
            => fetches' = fetches + 1
        /\ (LoadDataStep /\ ~last_fetch.done) => fetches' = fetches + 1
        /\ fetches' # fetches => LoadDataStep ]_vars

C6_Witness ==
    /\ pc = "loaded"
    /\ fetches = 1
    /\ now = last_fetch.time + TTL - 1
    /\ df_logs = last_fetch.logs
    /\ DatesParse(remote_logs)
    /\ df_logs # NormalizeLogs(remote_logs)

HasBadDate(raw) == \E i \in DOMAIN raw : raw[i].date = BadDate

(* C7: when load_data has to fetch and the fetch fails or a date of the
   transaction sheet is unparseable, the run ends in load_data with nothing
   of the dashboard produced and the cache left as it was, and nothing is
   produced until the script is rerun; a fetch that succeeds with parseable
   dates returns tables whatever the amount cells hold. *)
C7_LoadFailureAborts ==
    [][ /\ (LoadDataStep /\ ~CacheFresh(cache, now)
                /\ (~remote_up \/ HasBadDate(remote_logs)))
            => /\ pc' = "aborted"
               /\ rendered' = {}
               /\ cache' = cache
        /\ (LoadDataStep /\ ~CacheFresh(cache, now)
                /\ remote_up /\ ~HasBadDate(remote_logs) /\ ~HasBadDate(remote_budget))
            => /\ pc' = "loaded"
               /\ Len(df_logs') = Len(remote_logs)
        /\ pc = "aborted" => (rendered = {} /\ rendered' = {} /\ pc' \in {"aborted", "start"})
      ]_vars

C7_Witness ==
    /\ pc = "aborted"
    /\ remote_up
    /\ HasBadDate(remote_logs)
    /\ rendered = {}
    /\ cache.valid
    /\ \E i \in DOMAIN cache.logs : cache.logs[i].amount = 0
    /\ fetches = 2

(* the value each raw amount cell stands for, in units of 1/Scale *)
ExpectedAmount(cell) ==
    CASE cell = Cell300 -> 300 * Scale
      [] cell = CellYen1000 -> 1000 * Scale
      [] cell = CellYenMinus500 -> 0 - 500 * Scale
      [] cell = CellHalf -> Scale \div 2
      [] cell = CellNA -> 0

(* C8: normalising the amount column keeps every row and every other column;
   a cell that is no decimal number once the currency symbol and the
   separators are removed becomes 0, and a cell that is one becomes its
   value ("¥1,000" becomes 1000). *)
C8_AmountCoercion ==
    Loaded =>
        /\ Len(df_logs) = Len(remote_logs)
        /\ Len(df_budget) = Len(remote_budget)
        /\ \A i \in DOMAIN df_logs :
              /\ df_logs[i].date = remote_logs[i].date
              /\ df_logs[i].item = remote_logs[i].item
              /\ df_logs[i].flow = remote_logs[i].flow
              /\ df_logs[i].amount = ExpectedAmount(remote_logs[i].cell)
        /\ \A i \in DOMAIN df_budget :
              /\ df_budget[i].item = remote_budget[i].item
              /\ df_budget[i].amount = ExpectedAmount(remote_budget[i].cell)

C8_Witness ==
    /\ Loaded
    /\ Len(df_logs) = 2
    /\ \E i \in DOMAIN df_logs :
          remote_logs[i].cell = CellNA /\ df_logs[i].amount = 0
    /\ \E i \in DOMAIN df_logs :
          remote_logs[i].cell = CellYen1000 /\ df_logs[i].amount = 1000 * Scale

Permutations(s) ==
    { [i \in DOMAIN s |-> s[p[i]]] :
        p \in { q \in [DOMAIN s -> DOMAIN s] : \A i, j \in DOMAIN s : q[i] = q[j] => i = j } }

(* C9: the category table is sorted by ascending difference, and it is the
   same table, rows of equal difference included, for every order of the
   budget rows and of the transaction rows. *)
C9_SortedAndOrderIndependent ==
    Reconciled =>
        /\ \A i \in 1..(Len(summary) - 1) : summary[i].diff <= summary[i + 1].diff
        /\ \A b \in Permutations(df_budget) :
              \A l \in Permutations(df_logs) :
                 Charted(summary_table(MonthFilter(b, selected_month),
                                       MonthFilter(l, selected_month))) = summary

C9_Witness ==
    /\ Reconciled
    /\ Len(summary) = 2
    /\ summary[1].diff = summary[2].diff
    /\ summary[1].item = "Food"
    /\ df_budget[1].item = "Rent"
    /\ df_budget[2].item = "Food"

SumOfMonthFlow(ym, flow) ==
    SumAmount(SelectSeq(df_logs, LAMBDA r : r.ym = ym /\ r.flow = flow))

OneRowPerMonth ==
    /\ { monthly_summary.rows[i].ym : i \in DOMAIN monthly_summary.rows }
          = { df_logs[i].ym : i \in DOMAIN df_logs }
    /\ Len(monthly_summary.rows) = Cardinality({ df_logs[i].ym : i \in DOMAIN df_logs })

(* C10: the trend table has exactly one row for each year-month of the
   transaction table, whatever month is selected, and each row has an income
   total and an expense total, each the sum of the month's amounts of that
   direction, 0 where there is none, also when the table has no row of one
   direction at all. *)
C10_BothTotalsInEveryRow ==
    Trended =>
        /\ OneRowPerMonth
        /\ \A i \in DOMAIN monthly_summary.rows :
              /\ {Income, Expense} \subseteq DOMAIN monthly_summary.rows[i].totals
              /\ \A f \in {Income, Expense} :
                    monthly_summary.rows[i].totals[f]
                        = SumOfMonthFlow(monthly_summary.rows[i].ym, f)

(* C10 as amended: the trend table has exactly one row for each year-month of
   the transaction table, whatever month is selected, and each row has a
   total for every flow direction that occurs somewhere in the table, the sum
   of the month's amounts of that direction, 0 where the month has none; a
   direction that occurs nowhere in the table has no column, and no trace of
   it is drawn. *)
C10_TotalsForOccurringFlows ==
    Trended =>
        /\ OneRowPerMonth
        /\ monthly_summary.columns = { df_logs[i].flow : i \in DOMAIN df_logs }
        /\ TrendTraces(monthly_summary) = monthly_summary.columns
        /\ \A i \in DOMAIN monthly_summary.rows :
              /\ DOMAIN monthly_summary.rows[i].totals = monthly_summary.columns
              /\ \A f \in monthly_summary.columns :
                    monthly_summary.rows[i].totals[f]
                        = SumOfMonthFlow(monthly_summary.rows[i].ym, f)

C10_Witness ==
    /\ Trended
    /\ Len(monthly_summary.rows) = 2
    /\ monthly_summary.columns = {Income, Expense}
    /\ monthly_summary.rows[1].ym = <<2024, 1>>
    /\ monthly_summary.rows[1].totals[Income] = 0
    /\ monthly_summary.rows[1].totals[Expense] = 300 * Scale
    /\ monthly_summary.rows[2].ym = <<2024, 2>>
    /\ monthly_summary.rows[2].totals[Income] = 1000 * Scale
    /\ monthly_summary.rows[2].totals[Expense] = 0

====
